---- MODULE Spec2Model ----
(***************************************************************************)
(* Model of c10m3nb2_plotly_dash.py: the SpaceX launch dashboard.          *)
(*                                                                         *)
(* A pandas DataFrame is a record [owner, columns, index, rows]: `columns` *)
(* is the sequence of column labels, `index` the sequence of row labels    *)
(* and `rows` the sequence of rows, each a function from column label to   *)
(* value.  `owner` tells which Python object the frame is: "module" for    *)
(* the module-level spacex_data, "local" for an object created inside a    *)
(* callback.  A column assignment writes to the object it is applied to.   *)
(* Payload masses and slider positions are counted in slider steps.        *)
(***************************************************************************)
EXTENDS Integers, Sequences, FiniteSets, TLC

\* ---------------------------------------------------------------- bounds
MaxRows == 2
MaxMass == 1
MaxSessionRows == 1

\* ------------------------------------------------------- column labels
LaunchSite == "Launch Site"
PayloadMass == "Payload Mass (kg)"
Class == "class"
BoosterCategory == "Booster Version Category"
BoosterVersion == "Booster Version"
Outcome == "Outcome"
Count == "Count"
Total == "total"

CsvColumns == <<LaunchSite, PayloadMass, Class, BoosterCategory, BoosterVersion>>

\* Launch sites that occur in datasets, in Python's string order, which is
\* the order groupby sorts its keys in.
SiteNames == <<"CCAFS LC-40", "KSC LC-39A">>
Sites == {SiteNames[i] : i \in DOMAIN SiteNames}
ALL == "ALL"
\* A dropdown value that is no launch site of any dataset.
OtherSite == "VAFB SLC-4E"
SiteArgs == {ALL, OtherSite} \cup Sites

Masses == 0..MaxMass

\* float NaN: every ordering comparison with it is false.
NaN == -1
\* Python's None where a figure is expected; no invocation made so far
None == [kind |-> "None"]
NotCalled == "not called"

\* ------------------------------------------------------ sequence helpers
RECURSIVE SumSeq(_)
SumSeq(s) == IF s = <<>> THEN 0 ELSE Head(s) + SumSeq(Tail(s))

RECURSIVE Positions(_, _)
\* the positions of the mask that are True, ascending, shifted by `off`
Positions(mask, off) ==
  IF mask = <<>> THEN <<>>
  ELSE (IF Head(mask) THEN <<off + 1>> ELSE <<>>) \o Positions(Tail(mask), off + 1)

RECURSIVE Unique(_)
\* distinct values in order of first appearance
Unique(s) ==
  IF s = <<>> THEN <<>>
  ELSE LET init == Unique(SubSeq(s, 1, Len(s) - 1))
           last == s[Len(s)]
       IN  IF \E i \in DOMAIN init : init[i] = last THEN init ELSE Append(init, last)

Occurrences(s, v) == Cardinality({i \in DOMAIN s : s[i] = v})

ToSet(s) == {s[i] : i \in DOMAIN s}

\* ------------------------------------------------------ pandas primitives
DataFrame(owner, columns, index, rows) ==
  [owner |-> owner, columns |-> columns, index |-> index, rows |-> rows]

RangeIndex(n) == [i \in 1..n |-> i - 1]

\* df[label]: the column as a sequence of values
Column(df, label) == [i \in DOMAIN df.rows |-> df.rows[i][label]]

\* series >= v, series <= v, series == v: element-wise, NaN compares false
Ge(series, v) == [i \in DOMAIN series |-> series[i] # NaN /\ v # NaN /\ series[i] >= v]
LeExclusive(series, v) == [i \in DOMAIN series |-> series[i] # NaN /\ v # NaN /\ series[i] < v]
Le(series, v) == [i \in DOMAIN series |-> series[i] # NaN /\ v # NaN /\ series[i] <= v]
EqNe(series, v) == [i \in DOMAIN series |-> series[i] # v]
Eq(series, v) == [i \in DOMAIN series |-> series[i] = v]
AndAsOr(m1, m2) == [i \in DOMAIN m1 |-> m1[i] \/ m2[i]]
And(m1, m2) == [i \in DOMAIN m1 |-> m1[i] /\ m2[i]]

\* df[mask] variants: the selected rows in reverse order; the object df itself
\* when the mask selects every row; the rows dropped from df in place
GetItemBoolReversed(df, mask) ==
  LET keep == Positions(mask, 0)
      n == Len(keep)
  IN  DataFrame("local", df.columns,
                [k \in DOMAIN keep |-> df.index[keep[n + 1 - k]]],
                [k \in DOMAIN keep |-> df.rows[keep[n + 1 - k]]])

GetItemBoolView(df, mask) ==
  LET keep == Positions(mask, 0)
  IN  IF Len(keep) = Len(df.rows) THEN df
      ELSE DataFrame("local", df.columns,
                     [k \in DOMAIN keep |-> df.index[keep[k]]],
                     [k \in DOMAIN keep |-> df.rows[keep[k]]])

GetItemBoolInplace(df, mask) ==
  LET keep == Positions(mask, 0)
  IN  [df EXCEPT !.index = [k \in DOMAIN keep |-> df.index[keep[k]]],
                 !.rows = [k \in DOMAIN keep |-> df.rows[keep[k]]]]

\* df[mask]: boolean indexing takes the selected rows into a new object,
\* keeping their index labels and their order.
GetItemBool(df, mask) ==
  LET keep == Positions(mask, 0)
  IN  DataFrame("local", df.columns,
                [k \in DOMAIN keep |-> df.index[keep[k]]],
                [k \in DOMAIN keep |-> df.rows[keep[k]]])

\* series.map(dict): values missing from the dict become NaN
Map(series, dict) ==
  [i \in DOMAIN series |-> IF series[i] \in DOMAIN dict THEN dict[series[i]] ELSE NaN]

\* df[label] = values: writes the column into the object df itself
SetItem(df, label, values) ==
  [df EXCEPT
     !.columns = IF label \in ToSet(df.columns) THEN @ ELSE Append(@, label),
     !.rows = [i \in DOMAIN df.rows |-> (label :> values[i]) @@ df.rows[i]]]

\* Python's order on the strings the model uses (sort order of groupby keys)
StringOrder == <<ALL, SiteNames[1], SiteNames[2], OtherSite>>

SortedKeys(series) == SelectSeq(StringOrder, LAMBDA k : k \in ToSet(series))

\* groupby(...)[col].count() in place of .sum()
GroupByCount(df, by, col) ==
  LET keys == SortedKeys(Column(df, by))
  IN  DataFrame("local", <<by, col>>, RangeIndex(Len(keys)),
                [g \in DOMAIN keys |->
                   (by :> keys[g]) @@ (col :> Occurrences(Column(df, by), keys[g]))])

\* df.groupby(by)[col].sum().reset_index(): one row per distinct key, keys
\* sorted, the sum of col over the key's rows
GroupBySum(df, by, col) ==
  LET keys == SortedKeys(Column(df, by))
      members(k) == SelectSeq(df.rows, LAMBDA r : r[by] = k)
  IN  DataFrame("local", <<by, col>>, RangeIndex(Len(keys)),
                [g \in DOMAIN keys |->
                   (by :> keys[g]) @@
                   (col :> SumSeq([j \in DOMAIN members(keys[g]) |-> members(keys[g])[j][col]]))])

\* df.groupby(by).size().reset_index(name=name): the row count per key
GroupBySize(df, by, name) ==
  LET keys == SortedKeys(Column(df, by))
  IN  DataFrame("local", <<by, name>>, RangeIndex(Len(keys)),
                [g \in DOMAIN keys |->
                   (by :> keys[g]) @@ (name :> Occurrences(Column(df, by), keys[g]))])

RECURSIVE MergeRows(_, _, _)
MergeRows(lrows, rrows, on) ==
  IF lrows = <<>> THEN <<>>
  ELSE LET l == Head(lrows)
           matches == SelectSeq(rrows, LAMBDA r : r[on] = l[on])
       IN  [j \in DOMAIN matches |-> l @@ matches[j]] \o MergeRows(Tail(lrows), rrows, on)

\* pd.merge(left, right, on=on): inner join in the order of the left keys
Merge(left, right, on) ==
  LET rows == MergeRows(left.rows, right.rows, on)
  IN  DataFrame("local",
                left.columns \o SelectSeq(right.columns, LAMBDA c : c # on),
                RangeIndex(Len(rows)), rows)

RECURSIVE InsertDesc(_, _)
\* insert e behind every entry whose count is not smaller (stable)
InsertDesc(sorted, e) ==
  IF sorted = <<>> THEN <<e>>
  ELSE IF Head(sorted).count >= e.count
       THEN <<Head(sorted)>> \o InsertDesc(Tail(sorted), e)
       ELSE <<e>> \o sorted

RECURSIVE SortDesc(_)
SortDesc(entries) ==
  IF entries = <<>> THEN <<>>
  ELSE InsertDesc(SortDesc(SubSeq(entries, 1, Len(entries) - 1)), entries[Len(entries)])

\* a value_counts that reports both classes, also one that does not occur
ValueCountsAllClasses(series) ==
  SortDesc([k \in 1..2 |-> [value |-> 2 - k, count |-> Occurrences(series, 2 - k)]])

\* series.value_counts(): one entry per value that occurs, the most frequent
\* first, ties in order of first appearance
ValueCounts(series) ==
  LET values == Unique(series)
  IN  SortDesc([k \in DOMAIN values |->
                  [value |-> values[k], count |-> Occurrences(series, values[k])]])

\* counts.reset_index(): a two-column frame, the values and their counts
ResetIndex(counts, name) ==
  DataFrame("local", <<name, "count">>, RangeIndex(Len(counts)),
            [k \in DOMAIN counts |-> (name :> counts[k].value) @@ ("count" :> counts[k].count)])

\* df.columns = names: relabels the columns by position; pandas raises
\* ValueError when the number of names differs from the number of columns
SetColumnsRaises(df, names) == Len(names) # Len(df.columns)

SetColumns(df, names) ==
  [df EXCEPT
     !.columns = names,
     !.rows = [i \in DOMAIN df.rows |->
                 [c \in ToSet(names) |->
                    df.rows[i][df.columns[CHOOSE p \in DOMAIN names : names[p] = c]]]]]

\* ------------------------------------------------------ plotly express
\* px.pie / px.scatter: the figure is the frame it was given, the columns it
\* draws and its title (layout styling carries no data and is left out)
Pie(df, names, values, title) ==
  [kind |-> "pie", data_frame |-> df, encoding |-> <<names, values>>, title |-> title]

Scatter(df, x, y, color, title) ==
  [kind |-> "scatter", data_frame |-> df, encoding |-> <<x, y, color>>, title |-> title]

\* ------------------------------------------------------ module level code
VARIABLES spacex_data, loaded, site_value, range_value, pending,
          success_chart, correlation_chart, call

vars == <<spacex_data, loaded, site_value, range_value, pending,
          success_chart, correlation_chart, call>>

dashVars == <<site_value, range_value, pending, success_chart, correlation_chart>>

\* a row of datasets/spacex_launch_dash.csv
CsvRow(site, mass, class) ==
  (LaunchSite :> site) @@ (PayloadMass :> mass) @@ (Class :> class) @@
  (BoosterCategory :> "FT") @@ (BoosterVersion :> "F9 FT")

CsvRows == {CsvRow(s, m, c) : s \in Sites, m \in Masses, c \in {0, 1}}

\* pd.read_csv: the rows of the file in file order under a RangeIndex
ReadCsv(rows) == DataFrame("module", CsvColumns, RangeIndex(Len(rows)), rows)

\* series.min() and series.max(): NaN for an empty series
SeriesMin(series) ==
  IF series = <<>> THEN NaN
  ELSE CHOOSE v \in ToSet(series) : \A w \in ToSet(series) : v <= w

SeriesMax(series) ==
  IF series = <<>> THEN NaN
  ELSE CHOOSE v \in ToSet(series) : \A w \in ToSet(series) : v >= w

payload_min == SeriesMin(Column(loaded, PayloadMass))
payload_max == SeriesMax(Column(loaded, PayloadMass))

launch_sites == Unique(Column(loaded, LaunchSite))

\* the two inputs of the layout and the two callbacks registered on them
SiteSelector == "launch-site-selector"
RangeSlider == "payload-range-slider"
SuccessCallback == "update_success_chart"
CorrelationCallback == "update_correlation_chart"
Callbacks == {SuccessCallback, CorrelationCallback}

\* the Input(...) declarations of the @dashboard.callback decorators
CallbackInputsOwnControl(cb) ==
  IF cb = SuccessCallback THEN {SiteSelector} ELSE {RangeSlider}
CallbackInputs(cb) ==
  IF cb = SuccessCallback THEN {SiteSelector} ELSE {SiteSelector, RangeSlider}

Triggered(input) == {cb \in Callbacks : input \in CallbackInputs(cb)}

\* the options of the dropdown and the positions of the range slider
DropdownOptions == {ALL} \cup ToSet(launch_sites)
SliderValues == {<<a, b>> \in Masses \X Masses : a <= b}

\* module start: load the file, build the layout with the controls at their
\* initial values; the page load then requests every callback once
Load(maxRows) ==
  /\ \E n \in 0..maxRows : \E rows \in [1..n -> CsvRows] :
       /\ spacex_data = ReadCsv(rows)
       /\ loaded = ReadCsv(rows)
  /\ site_value = ALL
  /\ range_value = <<payload_min, payload_max>>
  /\ pending = Callbacks
  /\ success_chart = None
  /\ correlation_chart = None
  /\ call = [fn |-> NotCalled, args |-> <<>>, ret |-> None, raised |-> FALSE, again |-> FALSE]

\* ------------------------------------------------------ the callbacks
SuccessDict == (1 :> "Success") @@ (0 :> "Failure")
CorrelationDictSwapped == (0 :> "Success") @@ (1 :> "Failure")
CorrelationDict == (1 :> "Success") @@ (0 :> "Failure")

\* update_success_chart(selected_site) run on the module frame `data`:
\* the figure returned, whether it raised, and the module frame afterwards
update_success_chart(data, selected_site) ==
  IF selected_site = ALL
  THEN LET success_counts == GroupBySum(data, LaunchSite, Class)
           total_counts == GroupBySize(data, LaunchSite, Total)
           result_df == Merge(success_counts, total_counts, LaunchSite)
       IN  [ret |-> Pie(result_df, LaunchSite, Class, <<"Launch Success Rate by Site">>),
            raised |-> FALSE,
            spacex_data |-> data]
  ELSE LET site_data == GetItemBool(data, Eq(Column(data, LaunchSite), selected_site))
           counted == ResetIndex(ValueCounts(Column(site_data, Class)), Class)
           renamed == SetColumns(counted, <<Outcome, Count>>)
           outcomes == SetItem(renamed, Outcome, Map(Column(renamed, Outcome), SuccessDict))
       IN  IF SetColumnsRaises(counted, <<Outcome, Count>>)
           THEN [ret |-> None, raised |-> TRUE, spacex_data |-> data]
           ELSE [ret |-> Pie(outcomes, Outcome, Count, <<"Launch Outcomes for", selected_site>>),
                 raised |-> FALSE,
                 spacex_data |-> IF renamed.owner = "module" THEN outcomes ELSE data]

\* update_correlation_chart(selected_site, payload_range) run on `data`
update_correlation_chart(data, selected_site, payload_range) ==
  LET in_range == GetItemBool(data, And(Ge(Column(data, PayloadMass), payload_range[1]),
                                        Le(Column(data, PayloadMass), payload_range[2])))
      filtered_data ==
        IF selected_site # ALL
        THEN GetItemBool(in_range, Eq(Column(in_range, LaunchSite), selected_site))
        ELSE in_range
      labelled == SetItem(filtered_data, Outcome, Map(Column(filtered_data, Class), CorrelationDict))
  IN  [ret |-> Scatter(labelled, PayloadMass, Outcome, BoosterCategory,
                       <<"Payload Mass vs. Launch Outcome", payload_range[1], payload_range[2]>>),
       raised |-> FALSE,
       spacex_data |-> IF filtered_data.owner = "module" THEN labelled ELSE data]

\* ------------------------------------------------------ actions
\* update_success_chart invoked with the site argument s
InvokeSuccessChart(s) ==
  LET r == update_success_chart(spacex_data, s)
  IN  /\ call' = [fn |-> SuccessCallback, args |-> <<s>>, ret |-> r.ret, raised |-> r.raised,
                  again |-> call.fn # NotCalled]
      /\ spacex_data' = r.spacex_data
      /\ UNCHANGED <<loaded, dashVars>>

\* update_correlation_chart invoked with the site s and the range <<a, b>>
InvokeCorrelationChart(s, a, b) ==
  LET r == update_correlation_chart(spacex_data, s, <<a, b>>)
  IN  /\ call' = [fn |-> CorrelationCallback, args |-> <<s, <<a, b>>>>,
                  ret |-> r.ret, raised |-> r.raised, again |-> call.fn # NotCalled]
      /\ spacex_data' = r.spacex_data
      /\ UNCHANGED <<loaded, dashVars>>

\* one transform applied once to the loaded dataset, with any arguments
ApplySuccessChart ==
  /\ call.fn = NotCalled
  /\ \E s \in SiteArgs : InvokeSuccessChart(s)

ApplyCorrelationChart ==
  /\ call.fn = NotCalled
  /\ \E s \in SiteArgs : \E a \in Masses : \E b \in Masses : InvokeCorrelationChart(s, a, b)

\* a further invocation in a sequence of invocations, with any arguments
RequestSuccessChart == \E s \in SiteArgs : InvokeSuccessChart(s)

RequestCorrelationChart ==
  \E s \in SiteArgs : \E a \in Masses : \E b \in Masses : InvokeCorrelationChart(s, a, b)

\* the user picks another option of the dropdown
SelectSite ==
  \E s \in DropdownOptions :
    /\ s # site_value
    /\ site_value' = s
    /\ pending' = pending \cup Triggered(SiteSelector)
    /\ UNCHANGED <<spacex_data, loaded, range_value, success_chart, correlation_chart, call>>

\* the user moves a handle of the range slider
MoveSlider ==
  \E v \in SliderValues :
    /\ v # range_value
    /\ range_value' = v
    /\ pending' = pending \cup Triggered(RangeSlider)
    /\ UNCHANGED <<spacex_data, loaded, site_value, success_chart, correlation_chart, call>>

\* Dash runs the requested success callback on the current dropdown value
\* and puts the returned figure into launch-success-chart
FireSuccessCallback ==
  /\ SuccessCallback \in pending
  /\ LET r == update_success_chart(spacex_data, site_value)
     IN  /\ success_chart' = IF r.raised THEN success_chart ELSE r.ret
         /\ spacex_data' = r.spacex_data
  /\ pending' = pending \ {SuccessCallback}
  /\ UNCHANGED <<loaded, site_value, range_value, correlation_chart, call>>

\* Dash runs the requested correlation callback on the current dropdown and
\* slider values and puts the figure into payload-success-correlation
FireCorrelationCallback ==
  /\ CorrelationCallback \in pending
  /\ LET r == update_correlation_chart(spacex_data, site_value, range_value)
     IN  /\ correlation_chart' = IF r.raised THEN correlation_chart ELSE r.ret
         /\ spacex_data' = r.spacex_data
  /\ pending' = pending \ {CorrelationCallback}
  /\ UNCHANGED <<loaded, site_value, range_value, success_chart, call>>

\* a transform as a function: a dataset is loaded and one transform is
\* applied to it once
Init == Load(MaxRows)
Next == ApplySuccessChart \/ ApplyCorrelationChart
Spec == Init /\ [][Next]_vars

\* a server session: the transforms invoked any number of times in any order
InitSession == Load(MaxSessionRows)
NextCalls == RequestSuccessChart \/ RequestCorrelationChart
SpecCalls == InitSession /\ [][NextCalls]_vars

\* a browser session: the dashboard driven through its two controls
NextDash == SelectSite \/ MoveSlider \/ FireSuccessCallback \/ FireCorrelationCallback
SpecDash == InitSession /\ [][NextDash]_vars

TypeOK ==
  /\ spacex_data.owner = "module"
  /\ pending \subseteq Callbacks
  /\ call.fn \in {NotCalled, SuccessCallback, CorrelationCallback}

\* ====================================================== properties
\* The dataset as loaded, and the last invocation's arguments and result.
D == loaded.rows
SitesOf(rows) == {rows[i][LaunchSite] : i \in DOMAIN rows}
Summarized == call.fn = SuccessCallback
Correlated == call.fn = CorrelationCallback
ArgSite == call.args[1]
ArgMin == call.args[2][1]
ArgMax == call.args[2][2]
Result == call.ret.data_frame
Fields(row) == [c \in ToSet(CsvColumns) |-> row[c]]
LabelOf(flag) == IF flag = 1 THEN "Success" ELSE "Failure"

\* row i of D is inside the requested range and of the requested site
Wanted(i) ==
  /\ ArgMin <= D[i][PayloadMass]
  /\ D[i][PayloadMass] <= ArgMax
  /\ (ArgSite = ALL \/ D[i][LaunchSite] = ArgSite)

RowsOfSite(site) == {i \in DOMAIN D : D[i][LaunchSite] = site}
RowsOfSiteWith(site, flag) == {i \in RowsOfSite(site) : D[i][Class] = flag}

RECURSIVE FlagSum(_)
FlagSum(S) ==
  IF S = {} THEN 0
  ELSE LET i == CHOOSE j \in S : TRUE IN D[i][Class] + FlagSum(S \ {i})

\* C1: for a range with min <= max the rows returned by
\* update_correlation_chart are exactly the rows of the dataset inside the
\* inclusive range and of the selected site (every row when "ALL"): none
\* outside is returned, none inside is dropped.
C1_ExactlyTheWantedRows ==
  (Correlated /\ ArgMin <= ArgMax) =>
    /\ ~call.raised
    /\ {Result.index[k] + 1 : k \in DOMAIN Result.index} = {i \in DOMAIN D : Wanted(i)}
    /\ Len(Result.rows) = Cardinality({i \in DOMAIN D : Wanted(i)})
    /\ \A k \in DOMAIN Result.rows : Fields(Result.rows[k]) = D[Result.index[k] + 1]

\* a call that kept a row lying on an end of the range and dropped a row of
\* the selected site that lies outside the range
C1_Witness ==
  /\ Correlated /\ ArgMin <= ArgMax /\ ArgSite # ALL
  /\ \E i \in DOMAIN D : Wanted(i) /\ D[i][PayloadMass] = ArgMax
  /\ \E i \in DOMAIN D : D[i][LaunchSite] = ArgSite /\ ~Wanted(i)
  /\ Len(Result.rows) = 1

\* C2: update_success_chart("ALL") yields exactly one tuple per distinct site
\* of the dataset, carrying the sum of the site's class values and the number
\* of the site's rows; the sums add up to the number of class == 1 rows.
C2_OneTuplePerSite ==
  (Summarized /\ ArgSite = ALL) =>
    /\ ~call.raised
    /\ Len(Result.rows) = Cardinality(SitesOf(D))
    /\ \A site \in SitesOf(D) : \E k \in DOMAIN Result.rows :
         /\ Result.rows[k][LaunchSite] = site
         /\ Result.rows[k][Class] = FlagSum(RowsOfSite(site))
         /\ Result.rows[k][Total] = Cardinality(RowsOfSite(site))
    /\ SumSeq(Column(Result, Class)) = Cardinality({i \in DOMAIN D : D[i][Class] = 1})

\* a summary of a dataset with two sites, one of them with a failed launch
C2_Witness ==
  /\ Summarized /\ ArgSite = ALL
  /\ Cardinality(SitesOf(D)) = 2
  /\ \E k \in DOMAIN Result.rows : Result.rows[k][Class] < Result.rows[k][Total]
  /\ \E k \in DOMAIN Result.rows : Result.rows[k][Class] > 0

\* C3: update_success_chart(s) for a site s of the dataset yields only
\* "Success"/"Failure" entries, at most one each, counting the site's rows
\* with class 1 resp. 0; the counts add up to the site's row count and a
\* label with count zero is not emitted.
C3_OutcomeCounts ==
  (Summarized /\ ArgSite \in SitesOf(D)) =>
    /\ ~call.raised
    /\ \A k \in DOMAIN Result.rows : Result.rows[k][Outcome] \in {"Success", "Failure"}
    /\ \A k, m \in DOMAIN Result.rows : Result.rows[k][Outcome] = Result.rows[m][Outcome] => k = m
    /\ \A flag \in {0, 1} :
         LET n == Cardinality(RowsOfSiteWith(ArgSite, flag))
         IN  IF n = 0
             THEN \A k \in DOMAIN Result.rows : Result.rows[k][Outcome] # LabelOf(flag)
             ELSE \E k \in DOMAIN Result.rows :
                    Result.rows[k][Outcome] = LabelOf(flag) /\ Result.rows[k][Count] = n
    /\ SumSeq(Column(Result, Count)) = Cardinality(RowsOfSite(ArgSite))

\* a site whose launches all had the same outcome: one entry, none for zero
C3_Witness ==
  /\ Summarized /\ ArgSite \in SitesOf(D)
  /\ \E flag \in {0, 1} : RowsOfSiteWith(ArgSite, flag) = {}
  /\ Len(Result.rows) = 1

\* C4: for a selected_site that is neither "ALL" nor a site of the dataset
\* both transforms return without raising and their result has no rows.
C4_UnknownSiteEmpty ==
  ((Summarized \/ Correlated) /\ ArgSite \notin {ALL} \cup SitesOf(D)) =>
    /\ ~call.raised
    /\ Result.rows = <<>>

\* the correlation was asked for a site the non-empty dataset does not have,
\* with a range that holds rows of the dataset
C4_Witness ==
  /\ Correlated /\ ArgSite \notin {ALL} \cup SitesOf(D)
  /\ \E i \in DOMAIN D : ArgMin <= D[i][PayloadMass] /\ D[i][PayloadMass] <= ArgMax
  /\ Result.rows = <<>>

\* for the site summary: asked for a site the non-empty dataset does not have
C4_WitnessSummary ==
  /\ Summarized /\ ArgSite \notin {ALL} \cup SitesOf(D)
  /\ D # <<>>
  /\ Result.rows = <<>>

\* C5: with an inverted range (min > max) update_correlation_chart returns
\* no rows and does not raise, for every dataset and site selection.
C5_InvertedRangeEmpty ==
  (Correlated /\ ArgMin > ArgMax) =>
    /\ ~call.raised
    /\ Result.rows = <<>>

\* an inverted range on a dataset with a row on each side of the gap
C5_Witness ==
  /\ Correlated /\ ArgMin > ArgMax /\ ArgSite = ALL
  /\ \E i \in DOMAIN D : D[i][PayloadMass] >= ArgMin
  /\ \E i \in DOMAIN D : D[i][PayloadMass] <= ArgMax
  /\ Result.rows = <<>>

\* C6: the rows returned by update_correlation_chart are a subsequence of
\* the dataset: they keep their index labels, the labels ascend strictly,
\* and each returned row is the dataset's row of that label.
C6_StableFilter ==
  Correlated =>
    /\ \A k \in DOMAIN Result.rows :
         /\ Result.index[k] + 1 \in DOMAIN D
         /\ Fields(Result.rows[k]) = D[Result.index[k] + 1]
    /\ \A k, m \in DOMAIN Result.rows : k < m => Result.index[k] < Result.index[m]

\* two rows that differ survived a filter on site and range
C6_Witness ==
  /\ Correlated /\ ArgSite # ALL /\ ArgMin < ArgMax
  /\ Len(Result.rows) >= 2
  /\ Fields(Result.rows[1]) # Fields(Result.rows[2])

\* C7: every row returned by update_correlation_chart carries the fields of
\* its dataset row unchanged plus an Outcome that is "Success" exactly for
\* class 1 and "Failure" exactly for class 0; the site summary labels its
\* counts by the same mapping.
C7_OutcomeLabel ==
  /\ Correlated =>
       /\ Result.columns = Append(CsvColumns, Outcome)
       /\ \A k \in DOMAIN Result.rows :
            /\ DOMAIN Result.rows[k] = ToSet(CsvColumns) \cup {Outcome}
            /\ Fields(Result.rows[k]) = D[Result.index[k] + 1]
            /\ Result.rows[k][Outcome] = "Success" <=> Result.rows[k][Class] = 1
            /\ Result.rows[k][Outcome] = "Failure" <=> Result.rows[k][Class] = 0
  /\ (Summarized /\ ArgSite # ALL) =>
       \A k \in DOMAIN Result.rows : \E flag \in {0, 1} :
         /\ Result.rows[k][Outcome] = LabelOf(flag)
         /\ Result.rows[k][Count] = Cardinality(RowsOfSiteWith(ArgSite, flag))

\* a correlation result holding a successful and a failed launch
C7_Witness ==
  /\ Correlated
  /\ \E k \in DOMAIN Result.rows : Result.rows[k][Outcome] = "Success"
  /\ \E k \in DOMAIN Result.rows : Result.rows[k][Outcome] = "Failure"

\* C8: the module-level dataset is never changed after load: whatever
\* invocations ran, its rows, their order, its columns and its values are
\* those read at startup, also after a correlation whose filter kept every
\* row and then attached the Outcome column.
C8_DatasetNeverMutated == spacex_data = loaded

\* a correlation over all sites whose range kept every row of the dataset
C8_Witness ==
  /\ Correlated /\ ArgSite = ALL
  /\ D # <<>>
  /\ Len(Result.rows) = Len(D)
  /\ Outcome \in ToSet(Result.columns)

\* what an invocation returns when it runs alone on the freshly loaded data
Alone ==
  IF Summarized THEN update_success_chart(loaded, ArgSite)
  ELSE update_correlation_chart(loaded, ArgSite, call.args[2])

\* C9: in any sequence of invocations of the two transforms every invocation
\* returns what it would return run alone on the freshly loaded dataset, and
\* an invocation repeated with identical arguments returns an equal result.
C9_ResultDependsOnArgumentsOnly ==
  /\ [](call.fn # NotCalled => (call.ret = Alone.ret /\ call.raised = Alone.raised))
  /\ [][(call'.fn = call.fn /\ call'.args = call.args) =>
          (call'.ret = call.ret /\ call'.raised = call.raised)]_vars

\* an invocation that followed earlier ones and returned rows
C9_Witness ==
  /\ Correlated /\ call.again
  /\ ArgSite # ALL /\ ArgMin <= ArgMax
  /\ Len(Result.rows) >= 1

\* what the two charts have to show for the current control values
SuccessShown == update_success_chart(loaded, site_value).ret
CorrelationShown == update_correlation_chart(loaded, site_value, range_value).ret

\* C10: a change of the dropdown requests both callbacks, a change of the
\* slider requests the correlation callback only and leaves the success
\* chart as it is; a chart whose callback is not outstanding shows the
\* result for the current dropdown value (and current slider range).
C10_ReactiveWiring ==
  /\ [](SuccessCallback \notin pending => success_chart = SuccessShown)
  /\ [](CorrelationCallback \notin pending => correlation_chart = CorrelationShown)
  /\ [][site_value' # site_value => pending' = Callbacks]_vars
  /\ [][range_value' # range_value =>
          /\ pending' = pending \cup {CorrelationCallback}
          /\ success_chart' = success_chart]_vars

\* both controls were moved off their initial values and every requested
\* callback has run
C10_Witness ==
  /\ pending = {}
  /\ site_value # ALL
  /\ range_value # <<payload_min, payload_max>>
  /\ success_chart # None /\ correlation_chart # None
  /\ correlation_chart.data_frame.rows # <<>>

====
